---- MODULE Spec2Model ----
(***************************************************************************)
(* Model of the Xone Driver Manager plugin (src/main.py, class Plugin).    *)
(*                                                                         *)
(* Text (process output, file content, kernel ids) is a sequence of        *)
(* tokens; "\n" and " " are whitespace tokens.  A Python dict is a TLA+    *)
(* record whose DOMAIN is the set of keys the code puts in it.             *)
(* Every handler is one action.  The outcome of each external call a       *)
(* handler makes (exit code, output, a raised exception) is an input of    *)
(* the action; call, inp, ret, emitted and passes record the last handler  *)
(* invocation: its name, the inputs it saw, the dict it returned, the      *)
(* events it sent to decky.emit and the reconciliation passes it ran.      *)
(*                                                                         *)
(* Faults.  Every try block of the source has an input that makes its      *)
(* except branch run.  A faulting call raises without having had an        *)
(* effect: a file that cannot be opened for writing is left as it was.  A  *)
(* write cut short after the file was truncated is not one of these        *)
(* faults: it is the process being killed, the steps KillDuringSaveKernel  *)
(* and KillDuringSaveChecksum, and for checksums.json damaged by anything  *)
(* else the environment step ChecksumsChange.                              *)
(*                                                                         *)
(* Waiting.  A handler action is a whole invocation whose external         *)
(* processes exit.  `waiting` holds the subprocess.run call an invocation  *)
(* is inside of while its process has not exited (Block, Exited, Expired). *)
(***************************************************************************)
EXTENDS Integers, Sequences, FiniteSets, TLC

VARIABLES
    kernel,        \* the running kernel's release
    xoneOut,       \* stdout of `dkms status xone`
    xpadOut,       \* stdout of `dkms status xpad-noone`
    manifest,      \* plugin.json
    kernelFile,    \* <settings>/installed_kernel_version
    checksumFile,  \* <settings>/checksums.json
    downloads,     \* the files of /home/deck/Downloads, by name
    dongles,       \* the pairing attribute of each dongle plugged in
    waiting,       \* the external process a handler is waiting for, if any
    cleared,       \* history: install_drivers has returned success, and the
                   \* running kernel has not changed since
    call, inp, ret, emitted, passes

env == <<kernel, xoneOut, xpadOut, manifest>>

vars == <<kernel, xoneOut, xpadOut, manifest, kernelFile, checksumFile, downloads,
          dongles, waiting, cleared, call, inp, ret, emitted, passes>>

(***************************************************************************)
(* Bounds                                                                  *)
(***************************************************************************)
\* number of distinct kernel releases the device can run
NumKernels == 2

\* number of distinct release tags upstream can publish
NumTags == 2

\* the most dongles plugged in at a time
NumDongles == 2

(***************************************************************************)
(* Vocabulary                                                              *)
(***************************************************************************)
KernelNames == <<"6.1.52-valve16", "6.5.0-valve22", "6.11.11-valve5", "6.12.1-valve1">>

Kernels == { <<KernelNames[i]>> : i \in 1..NumKernels }

Whitespace == {" ", "\n"}

\* str.strip(): drop leading and trailing whitespace
RECURSIVE LStrip(_)
LStrip(s) == IF s # <<>> /\ Head(s) \in Whitespace THEN LStrip(Tail(s)) ELSE s

RECURSIVE RStrip(_)
RStrip(s) ==
    IF s # <<>> /\ s[Len(s)] \in Whitespace
    THEN RStrip(SubSeq(s, 1, Len(s) - 1))
    ELSE s

\* mutant: the output is used as printed, newline included
StripNothing(s) == s

Strip(s) == RStrip(LStrip(s))

\* str.lower() on the tokens dkms prints
Lower(t) ==
    CASE t = "Installed" -> "installed"
      [] t = "Added" -> "added"
      [] OTHER -> t

\* "installed" in stdout.lower()
ContainsInstalled(out) == \E i \in 1..Len(out) : Lower(out[i]) = "installed"

\* what `dkms status <module>` can print
DkmsOutputs == { <<>>, <<"added", "\n">>, <<"Installed", "\n">> }

\* stdout of `uname -r`
UnameStdout == kernel \o <<"\n">>

\* a string as the sequence of its characters
V110 == <<"v", "1", ".", "1", "0">>

Beta1 == <<"b", "e", "t", "a", "1">>

V20rc1 == <<"v", "2", ".", "0", "-", "r", "c", "1">>

V2 == <<"2">>

TagNames == <<V110, Beta1, V20rc1, V2>>

Tags == { TagNames[i] : i \in 1..NumTags }

\* the versions plugin.json can declare, and the one assumed without it
V19 == <<"1", ".", "9">>

V000 == <<"0", ".", "0", ".", "0">>

ManifestVersions == {V19, V110}

VersionStrings == Tags \cup ManifestVersions \cup {V000}

\* contents of a file of the download directory: the release archive, and
\* the empty file a failed transfer leaves
Contents == { <<>>, <<"A">> }

\* names of release assets
XoneZip == <<"xone", ".zip">>

OtherZip == <<"other", ".zip">>

NotesTxt == <<"notes", ".txt">>

\* the names of the files the download directory can hold
FileNames == {XoneZip}

\* a file: absent, or present with a content
Absent == [exists |-> FALSE, content |-> <<>>]

File(c) == [exists |-> TRUE, content |-> c]

\* no handler is waiting for an external process
Idle == [op |-> "none"]

(***************************************************************************)
(* Inputs of the handlers: what the external calls of one invocation do    *)
(***************************************************************************)
\* exit codes of the install and uninstall scripts
ExitCodes == {0, 1, 100}

\* what a script prints on stdout, and on stderr
ScriptStdouts == { <<"done", "\n">>, <<"REBOOT_REQUIRED", "\n">> }

ScriptStderrs == {"", "dkms build failed"}

\* the point of _check_kernel_mismatch's try block where an exception is raised
PassFaults == {"none", "status", "uname", "read", "save"}

\* the same for install_drivers and uninstall_drivers
InstallFaults == {"none", "missing", "launch", "timeout", "save"}

UninstallFaults == {"none", "missing", "launch", "timeout", "remove"}

(***************************************************************************)
(* Install State Reader                                                    *)
(***************************************************************************)
\* mutant: one installed module is enough to count as fully installed
get_install_status_any(fault) ==
    IF fault
    THEN [xone_installed |-> FALSE, xpad_installed |-> FALSE,
          fully_installed |-> FALSE, version |-> V000, error |-> "exception"]
    ELSE [xone_installed |-> ContainsInstalled(xoneOut),
          xpad_installed |-> ContainsInstalled(xpadOut),
          fully_installed |-> ContainsInstalled(xoneOut) \/ ContainsInstalled(xpadOut),
          version |-> IF manifest.exists THEN manifest.content ELSE V000]

\* get_install_status: `fault` is an exception raised in the try block (dkms
\* cannot be launched, plugin.json cannot be read or parsed)
\* mutant: one module installed counts as fully installed
get_install_status_either(fault) ==
    IF fault
    THEN [xone_installed |-> FALSE, xpad_installed |-> FALSE,
          fully_installed |-> FALSE, version |-> V000, error |-> "exception"]
    ELSE LET xone_installed == ContainsInstalled(xoneOut)
             xpad_installed == ContainsInstalled(xpadOut)
         IN [xone_installed |-> xone_installed, xpad_installed |-> xpad_installed,
             fully_installed |-> xone_installed \/ xpad_installed,
             version |-> IF manifest.exists THEN manifest.content ELSE V000]

get_install_status(fault) ==
    IF fault
    THEN [xone_installed |-> FALSE, xpad_installed |-> FALSE,
          fully_installed |-> FALSE, version |-> V000, error |-> "exception"]
    ELSE LET xone_installed == ContainsInstalled(xoneOut)
             xpad_installed == ContainsInstalled(xpadOut)
         IN [xone_installed |-> xone_installed, xpad_installed |-> xpad_installed,
             fully_installed |-> xone_installed /\ xpad_installed,
             version |-> IF manifest.exists THEN manifest.content ELSE V000]

GetInstallStatus(fault) ==
    /\ ret' = get_install_status(fault)
    /\ call' = "get_install_status"
    /\ inp' = [fault |-> fault]
    /\ emitted' = <<>>
    /\ passes' = 0
    /\ waiting' = Idle
    /\ UNCHANGED <<cleared, env, dongles, kernelFile, checksumFile, downloads>>

(***************************************************************************)
(* Version Comparator                                                      *)
(***************************************************************************)
Digits == {"0", "1", "2", "3", "4", "5", "6", "7", "8", "9"}

DigitVal(c) ==
    CASE c = "0" -> 0 [] c = "1" -> 1 [] c = "2" -> 2 [] c = "3" -> 3
      [] c = "4" -> 4 [] c = "5" -> 5 [] c = "6" -> 6 [] c = "7" -> 7
      [] c = "8" -> 8 [] c = "9" -> 9

\* code points of the characters version strings are made of
Ord(c) ==
    CASE c = "-" -> 45 [] c = "." -> 46 [] c \in Digits -> 48 + DigitVal(c)
      [] c = "a" -> 97 [] c = "b" -> 98 [] c = "c" -> 99 [] c = "e" -> 101
      [] c = "r" -> 114 [] c = "t" -> 116 [] c = "v" -> 118

\* str.lstrip("v")
RECURSIVE LStripV(_)
LStripV(s) == IF s # <<>> /\ Head(s) = "v" THEN LStripV(Tail(s)) ELSE s

\* str.split("-")[0]
RECURSIVE BeforeDash(_)
BeforeDash(s) ==
    IF s = <<>> \/ Head(s) = "-" THEN <<>> ELSE <<Head(s)>> \o BeforeDash(Tail(s))

\* the longest prefix of s whose characters are all digits (d) or all not
RECURSIVE Run(_, _)
Run(s, d) ==
    IF s = <<>> \/ (Head(s) \in Digits) # d THEN <<>>
    ELSE <<Head(s)>> \o Run(Tail(s), d)

\* int(p) of a run of digits
RECURSIVE IntOf(_)
IntOf(p) == IF p = <<>> THEN 0 ELSE 10 * IntOf(SubSeq(p, 1, Len(p) - 1)) + DigitVal(p[Len(p)])

\* the parts re.split(r"(\d+)", s) yields, empty ones dropped, digit runs as ints
RECURSIVE Parts(_)
Parts(s) ==
    IF s = <<>> THEN <<>>
    ELSE LET d == Head(s) \in Digits
             p == Run(s, d)
             rest == SubSeq(s, Len(p) + 1, Len(s))
         IN << IF d THEN [num |-> TRUE, n |-> IntOf(p), s |-> <<>>]
                    ELSE [num |-> FALSE, n |-> 0, s |-> p] >> \o Parts(rest)

parse_version(version_str) == Parts(BeforeDash(LStripV(version_str)))

\* a < b for two Python strings
RECURSIVE StrLess(_, _)
StrLess(a, b) ==
    IF b = <<>> THEN FALSE
    ELSE IF a = <<>> THEN TRUE
    ELSE IF Head(a) # Head(b) THEN Ord(Head(a)) < Ord(Head(b))
    ELSE StrLess(Tail(a), Tail(b))

\* a > b for two Python tuples: decided at the first position where they
\* differ, "TypeError" when an int meets a str there
RECURSIVE TupleGreater(_, _)
TupleGreater(a, b) ==
    IF a = <<>> THEN "False"
    ELSE IF b = <<>> THEN "True"
    ELSE IF Head(a) = Head(b) THEN TupleGreater(Tail(a), Tail(b))
    ELSE IF Head(a).num # Head(b).num THEN "TypeError"
    ELSE IF Head(a).num THEN (IF Head(a).n > Head(b).n THEN "True" ELSE "False")
    ELSE IF StrLess(Head(b).s, Head(a).s) THEN "True" ELSE "False"

\* parse_version(a) > parse_version(b), tabulated over the version strings
version_greater ==
    [a \in VersionStrings, b \in VersionStrings |->
        TupleGreater(parse_version(a), parse_version(b))]

\* the version strings the comparison is exercised on: every tag and every
\* plugin version of the vocabulary
ComparedStrings == { TagNames[i] : i \in DOMAIN TagNames } \cup ManifestVersions \cup {V000}

\* parse_version(a) > parse_version(b), as check_for_updates evaluates it
Greater(a, b) == TupleGreater(parse_version(a), parse_version(b))

\* the comparisons among three version strings
Compare(a, b, c) ==
    /\ ret' = [aa |-> Greater(a, a), ab |-> Greater(a, b), ba |-> Greater(b, a),
               bc |-> Greater(b, c), ac |-> Greater(a, c),
               same |-> (parse_version(a) = parse_version(b))]
    /\ call' = "parse_version"
    /\ inp' = [a |-> a, b |-> b, c |-> c]
    /\ emitted' = <<>>
    /\ passes' = 0
    /\ waiting' = Idle
    /\ UNCHANGED <<cleared, env, dongles, kernelFile, checksumFile, downloads>>

(***************************************************************************)
(* Checksum Store                                                          *)
(***************************************************************************)
\* _calculate_hash: the first eight hex digits of the SHA-256 digest
Sha256(content) ==
    CASE content = <<>> -> "e3b0c442"
      [] content = <<"A">> -> "559aead0"

Hashes == { Sha256(c) : c \in Contents }

\* checksums.json: absent, not a JSON mapping (corrupt), or a mapping
NoChecksums == [kind |-> "absent"]

Corrupt == [kind |-> "corrupt"]

Mapping(d) == [kind |-> "json", data |-> d]

\* dict.get(key)
Has(d, key) == key \in DOMAIN d

\* mutant: the mapping is written afresh, holding the saved entry only
save_checksum_fresh(version, hash_val, fault) ==
    IF checksumFile.kind = "corrupt" \/ fault THEN checksumFile
    ELSE Mapping([t \in {version} |-> hash_val])

\* _save_checksum: checksums.json afterwards.  json.load raising on a corrupt
\* file, or open(.., "w") raising (`fault`), is logged and swallowed.
save_checksum(version, hash_val, fault) ==
    IF checksumFile.kind = "corrupt" THEN checksumFile
    ELSE LET data == IF checksumFile.kind = "json" THEN checksumFile.data
                     ELSE << >>
             updated == [t \in DOMAIN data \cup {version} |->
                            IF t = version THEN hash_val ELSE data[t]]
         IN IF fault THEN checksumFile ELSE Mapping(updated)

\* mutant: a recorded entry is trusted without hashing the file
verify_checksum_entry_only(version, file_path, fault) ==
    /\ checksumFile.kind = "json"
    /\ Has(checksumFile.data, version)

\* _verify_checksum: `fault` is the file at file_path not being readable
verify_checksum(version, file_path, fault) ==
    IF checksumFile.kind = "absent" THEN FALSE
    ELSE IF checksumFile.kind = "corrupt" THEN FALSE
    ELSE IF ~Has(checksumFile.data, version) THEN FALSE
    ELSE IF checksumFile.data[version] = "" THEN FALSE
    ELSE IF fault \/ ~downloads[file_path].exists THEN FALSE
    ELSE Sha256(downloads[file_path].content) = checksumFile.data[version]

\* a call of _save_checksum(version, _calculate_hash(file))
SaveChecksum(version, file, fault) ==
    /\ downloads[file].exists
    /\ checksumFile' = save_checksum(version, Sha256(downloads[file].content), fault)
    /\ call' = "_save_checksum"
    /\ inp' = [version |-> version, file |-> file, fault |-> fault]
    /\ ret' = [none |-> TRUE]
    /\ emitted' = <<>>
    /\ passes' = 0
    /\ waiting' = Idle
    /\ UNCHANGED <<cleared, env, dongles, kernelFile, downloads>>

\* a call of _verify_checksum(version, file)
VerifyChecksum(version, file, fault) ==
    /\ ret' = [value |-> verify_checksum(version, file, fault)]
    /\ call' = "_verify_checksum"
    /\ inp' = [version |-> version, file |-> file, fault |-> fault]
    /\ emitted' = <<>>
    /\ passes' = 0
    /\ waiting' = Idle
    /\ UNCHANGED <<cleared, env, dongles, kernelFile, checksumFile, downloads>>

(***************************************************************************)
(* Update Checker                                                          *)
(***************************************************************************)
\* a download URL: its characters, grouped; "/" separates the segments
UrlOf(name) == <<"https:", "/", "/", "github.com", "/">> \o name

Asset(name) == [name |-> name, browser_download_url |-> UrlOf(name)]

AssetLists ==
    { <<>>, <<Asset(NotesTxt), Asset(XoneZip)>>, <<Asset(OtherZip), Asset(XoneZip)>> }

\* what the release endpoint answers: a release, or an error object
Descriptors ==
    { [tag_name |-> t, assets |-> a, body |-> "notes"] : t \in Tags, a \in AssetLists }
        \cup { [message |-> "API rate limit exceeded"] }

\* outcome of the curl call that fetches the descriptor: it cannot be
\* launched, exits non-zero, prints something that is not JSON, or prints a
\* descriptor
Fetches ==
    { [kind |-> "launch"], [kind |-> "rc"], [kind |-> "malformed"] }
        \cup { [kind |-> "ok", data |-> d] : d \in Descriptors }

\* the point of check_for_updates where an external call fails: the status
\* query (swallowed by get_install_status) or the read of the local file
CheckFaults == {"none", "status", "hash"}

\* str.endswith(".zip")
EndsWithZip(name) == name # <<>> /\ name[Len(name)] = ".zip"

\* index of the first asset whose name ends in .zip, 0 if none
RECURSIVE FirstZip(_, _)
FirstZip(assets, i) ==
    IF i > Len(assets) THEN 0
    ELSE IF EndsWithZip(assets[i].name) THEN i
    ELSE FirstZip(assets, i + 1)

\* the dict the catch-all handler of check_for_updates returns
CheckError == [update_available |-> FALSE, error |-> "exception"]

\* Python's None, for the values of download_url and filename
None == <<"None">>

check_for_updates(fault, fetch) ==
    LET status == get_install_status(fault = "status")
        current_version_str == status.version
    IN IF fetch.kind = "launch" THEN CheckError
       ELSE IF fetch.kind = "rc"
       THEN [update_available |-> FALSE, error |-> "Failed to fetch update info"]
       ELSE IF fetch.kind = "malformed" THEN CheckError
       ELSE LET data == fetch.data
                latest_version_str == IF Has(data, "tag_name") THEN data.tag_name ELSE V000
                greater == version_greater[latest_version_str, current_version_str]
                assets == IF Has(data, "assets") THEN data.assets ELSE <<>>
                zip == FirstZip(assets, 1)
                filename == IF zip = 0 THEN None ELSE assets[zip].name
                download_url == IF zip = 0 THEN None ELSE assets[zip].browser_download_url
                file_exists ==
                    IF zip # 0 /\ filename \in DOMAIN downloads /\ downloads[filename].exists
                    THEN verify_checksum(latest_version_str, filename, fault = "hash")
                    ELSE FALSE
            IN IF greater = "TypeError" THEN CheckError
               ELSE [update_available |-> (greater = "True"),
                     latest_version |-> LStripV(latest_version_str),
                     latest_tag |-> latest_version_str,
                     current_version |-> LStripV(current_version_str),
                     download_url |-> download_url,
                     filename |-> filename,
                     file_exists |-> file_exists,
                     release_notes |-> IF Has(data, "body") THEN data.body ELSE ""]

CheckForUpdates(fault, fetch) ==
    /\ ret' = check_for_updates(fault, fetch)
    /\ call' = "check_for_updates"
    /\ inp' = [fetch |-> fetch.kind,
               tag |-> IF fetch.kind = "ok" /\ Has(fetch.data, "tag_name")
                       THEN {fetch.data.tag_name} ELSE {},
               current |-> get_install_status(fault = "status").version,
               status_fault |-> (fault = "status")]
    /\ emitted' = <<>>
    /\ passes' = 0
    /\ waiting' = Idle
    /\ UNCHANGED <<cleared, env, dongles, kernelFile, checksumFile, downloads>>

(***************************************************************************)
(* Release Fetcher                                                         *)
(***************************************************************************)
\* url.split("/")[-1]
RECURSIVE LastSegment(_)
LastSegment(url) ==
    IF url = <<>> \/ url[Len(url)] = "/" THEN <<>>
    ELSE LastSegment(SubSeq(url, 1, Len(url) - 1)) \o <<url[Len(url)]>>

\* the URLs download_latest_release is called with: none, or one whose final
\* segment is a file name
Urls == { <<>> } \cup { UrlOf(n) : n \in FileNames }

\* what fails after a transfer that exited 0: the read of the file to hash,
\* or the write of checksums.json
AfterFaults == {"none", "hash", "write"}

\* outcome of the curl call that downloads: an exception before it runs
\* (makedirs fails, curl cannot be launched), or an exit code and what it
\* left at the destination ({} nothing, {c} a file of content c); `after`
\* is what fails after an exit 0
Transfers ==
    { [kind |-> "raise"] }
        \cup { [kind |-> "exit", rc |-> 0, written |-> {c}, after |-> a] :
                    c \in Contents, a \in AfterFaults }
        \cup { [kind |-> "exit", rc |-> 22, written |-> w, after |-> "none"] :
                    w \in { {}, {<<>>} } }

\* the fetches of the repeat call of check_for_updates that differ in what
\* download_latest_release reads of its result, the key latest_tag
TagFetches ==
    { f \in Fetches : /\ f.kind \in {"launch", "rc", "ok"}
                      /\ f.kind = "ok" /\ Has(f.data, "assets") => f.data.assets = <<>> }

\* mutant: the file is hashed and the checksum saved before the exit code of
\* the transfer is looked at
download_latest_release_saves_early(url, cfault, fetch, transfer) ==
    LET update_status == check_for_updates(cfault, fetch)
        latest_tag == IF Has(update_status, "latest_tag")
                      THEN {update_status.latest_tag} ELSE {}
        filename == LastSegment(url)
        same == [ret |-> [success |-> FALSE, error |-> "exception"],
                 dir |-> downloads, sums |-> checksumFile, tag |-> latest_tag,
                 fault |-> "none"]
    IN IF url = <<>>
       THEN [same EXCEPT !.ret = [success |-> FALSE, error |-> "No download URL provided"],
                         !.tag = {}]
       ELSE IF transfer.kind = "raise" THEN [same EXCEPT !.fault = "transfer"]
       ELSE LET dir == IF transfer.written = {} THEN downloads
                       ELSE [downloads EXCEPT ![filename] =
                                File(CHOOSE c \in transfer.written : TRUE)]
                sums == IF latest_tag \in {{}, {<<>>}} \/ ~dir[filename].exists
                        THEN checksumFile
                        ELSE save_checksum(CHOOSE t \in latest_tag : TRUE,
                                           Sha256(dir[filename].content),
                                           transfer.after = "write")
            IN IF transfer.after = "hash"
               THEN [same EXCEPT !.dir = dir, !.fault = "hash"]
               ELSE IF transfer.rc # 0
               THEN [ret |-> [success |-> FALSE, error |-> "Download failed"],
                     dir |-> dir, sums |-> sums, tag |-> latest_tag, fault |-> "none"]
               ELSE [ret |-> [success |-> TRUE, path |-> filename],
                     dir |-> dir, sums |-> sums, tag |-> latest_tag,
                     fault |-> IF transfer.after = "write" THEN "write" ELSE "none"]

\* download_latest_release: the dict returned, the download directory and
\* checksums.json afterwards, the tag it looked up ({} for None) and the
\* call that raised, if one did
download_latest_release(url, cfault, fetch, transfer) ==
    LET update_status == check_for_updates(cfault, fetch)
        latest_tag == IF Has(update_status, "latest_tag")
                      THEN {update_status.latest_tag} ELSE {}
        filename == LastSegment(url)
        same == [ret |-> [success |-> FALSE, error |-> "exception"],
                 dir |-> downloads, sums |-> checksumFile, tag |-> latest_tag,
                 fault |-> "none"]
    IN IF url = <<>>
       THEN [same EXCEPT !.ret = [success |-> FALSE, error |-> "No download URL provided"],
                         !.tag = {}]
       ELSE IF transfer.kind = "raise" THEN [same EXCEPT !.fault = "transfer"]
       ELSE LET dir == IF transfer.written = {} THEN downloads
                       ELSE [downloads EXCEPT ![filename] =
                                File(CHOOSE c \in transfer.written : TRUE)]
            IN IF transfer.rc # 0
               THEN [same EXCEPT !.ret = [success |-> FALSE, error |-> "Download failed"],
                                 !.dir = dir]
               ELSE IF latest_tag = {} \/ latest_tag = {<<>>}
               THEN [same EXCEPT !.ret = [success |-> TRUE, path |-> filename],
                                 !.dir = dir]
               ELSE IF transfer.after = "hash"
               THEN [same EXCEPT !.dir = dir, !.fault = "hash"]
               ELSE [ret |-> [success |-> TRUE, path |-> filename],
                     dir |-> dir,
                     sums |-> LET tag == CHOOSE t \in latest_tag : TRUE
                                  file_hash == Sha256(dir[filename].content)
                              IN save_checksum(tag, file_hash, transfer.after = "write"),
                     tag |-> latest_tag,
                     fault |-> IF transfer.after = "write" THEN "write" ELSE "none"]

DownloadLatestRelease(url, cfault, fetch, transfer) ==
    LET r == download_latest_release(url, cfault, fetch, transfer)
    IN /\ ret' = r.ret
       /\ downloads' = r.dir
       /\ checksumFile' = r.sums
       /\ call' = "download_latest_release"
       /\ inp' = [url |-> url, tag |-> r.tag, fault |-> r.fault]
       /\ emitted' = <<>>
       /\ passes' = 0
       /\ waiting' = Idle
       /\ UNCHANGED <<cleared, env, dongles, kernelFile>>

(***************************************************************************)
(* Kernel Reconciler                                                       *)
(***************************************************************************)
\* _save_kernel_version(version): `version` is {} for None and {v} for v.
\* The value is the kernel record file afterwards.  `fault` is an exception
\* raised in the try block (uname cannot be launched, the settings directory
\* cannot be created, the file cannot be opened for writing): it is logged
\* and swallowed, and the file is as it was.
save_kernel_version(version, fault) ==
    IF fault THEN kernelFile
    ELSE File(IF version = {} THEN Strip(UnameStdout)
              ELSE CHOOSE v \in version : TRUE)

\* mutant: a detected mismatch also overwrites the record
check_kernel_mismatch_overwrites(fault) ==
    LET status == get_install_status(fault = "status")
        nothing == [file |-> kernelFile, events |-> <<>>]
    IN IF ~status.fully_installed \/ fault = "uname" THEN nothing
       ELSE IF kernelFile.exists /\ fault = "read" THEN nothing
       ELSE IF kernelFile.exists /\ Strip(kernelFile.content) = Strip(UnameStdout)
       THEN nothing
       ELSE [file |-> save_kernel_version({Strip(UnameStdout)}, fault = "save"),
             events |-> IF kernelFile.exists
                        THEN << <<"kernel_update_detected", Strip(kernelFile.content),
                                  Strip(UnameStdout)>> >>
                        ELSE <<>>]

\* _check_kernel_mismatch: the kernel record file and the events emitted
check_kernel_mismatch(fault) ==
    LET status == get_install_status(fault = "status")
        nothing == [file |-> kernelFile, events |-> <<>>]
    IN IF ~status.fully_installed THEN nothing
       ELSE IF fault = "uname" THEN nothing
       ELSE LET current_kernel == Strip(UnameStdout)
            IN IF kernelFile.exists
               THEN IF fault = "read" THEN nothing
                    ELSE LET saved_kernel == Strip(kernelFile.content)
                         IN IF saved_kernel # current_kernel
                            THEN [file |-> kernelFile,
                                  events |-> << <<"kernel_update_detected",
                                                  saved_kernel, current_kernel>> >>]
                            ELSE nothing
               ELSE [file |-> save_kernel_version({current_kernel}, fault = "save"),
                     events |-> <<>>]

\* _main: the plugin loads and runs one reconciliation pass
Main(fault) ==
    LET r == check_kernel_mismatch(fault)
    IN /\ kernelFile' = r.file
       /\ emitted' = r.events
       /\ passes' = 1
       /\ call' = "_main"
       /\ inp' = [fault |-> fault]
       /\ ret' = [none |-> TRUE]
       /\ waiting' = Idle
       /\ UNCHANGED <<cleared, env, dongles, checksumFile, downloads>>

(***************************************************************************)
(* Installation                                                            *)
(***************************************************************************)
\* mutant: only the exit code signals reboot-required
MarkerIgnored(stdout) == FALSE

\* "REBOOT_REQUIRED" in result.stdout
MarkerIn(stdout) == \E i \in 1..Len(stdout) : stdout[i] = "REBOOT_REQUIRED"

\* mutant: the kernel version is saved as soon as the script has run
install_drivers_saves_first(fault, rc, stdout, stderr) ==
    IF fault \in {"missing", "launch", "timeout"}
    THEN [ret |-> [success |-> FALSE, error |-> "exception"], file |-> kernelFile]
    ELSE IF rc = 100 \/ MarkerIn(stdout)
    THEN [ret |-> [success |-> FALSE, reboot_required |-> TRUE,
                   message |-> "Kernel has been upgraded to match headers. Please reboot and try again.",
                   output |-> stdout],
          file |-> save_kernel_version({}, fault = "save")]
    ELSE IF rc # 0
    THEN [ret |-> [success |-> FALSE,
                   error |-> IF stderr # "" THEN stderr ELSE "Installation failed",
                   output |-> stdout],
          file |-> save_kernel_version({}, fault = "save")]
    ELSE [ret |-> [success |-> TRUE, output |-> stdout],
          file |-> save_kernel_version({}, fault = "save")]

\* install_drivers: the dict returned and the kernel record file afterwards
install_drivers(fault, rc, stdout, stderr) ==
    IF fault = "missing"
    THEN [ret |-> [success |-> FALSE, error |-> "Install script not found"],
          file |-> kernelFile]
    ELSE IF fault = "timeout"
    THEN [ret |-> [success |-> FALSE, error |-> "Installation timed out (10 minutes)"],
          file |-> kernelFile]
    ELSE IF fault = "launch"
    THEN [ret |-> [success |-> FALSE, error |-> "exception"], file |-> kernelFile]
    ELSE IF rc = 100 \/ MarkerIn(stdout)
    THEN [ret |-> [success |-> FALSE, reboot_required |-> TRUE,
                   message |-> "Kernel has been upgraded to match headers. Please reboot and try again.",
                   output |-> stdout],
          file |-> kernelFile]
    ELSE IF rc # 0
    THEN [ret |-> [success |-> FALSE,
                   error |-> IF stderr # "" THEN stderr ELSE "Installation failed",
                   output |-> stdout],
          file |-> kernelFile]
    ELSE [ret |-> [success |-> TRUE, output |-> stdout],
          file |-> save_kernel_version({}, fault = "save")]

InstallDrivers(fault, rc, stdout, stderr) ==
    LET r == install_drivers(fault, rc, stdout, stderr)
    IN /\ kernelFile' = r.file
       /\ ret' = r.ret
       /\ call' = "install_drivers"
       /\ inp' = [fault |-> fault, rc |-> rc, stdout |-> stdout]
       /\ emitted' = <<>>
       /\ passes' = 0
       /\ waiting' = Idle
       /\ cleared' = (cleared \/ r.ret.success)
       /\ UNCHANGED <<env, dongles, checksumFile, downloads>>

\* mutant: the record is removed before the script's exit code is looked at
uninstall_drivers_clears_first(fault, rc, stdout, stderr) ==
    IF fault \in {"missing", "launch", "timeout"}
    THEN [ret |-> [success |-> FALSE, error |-> "exception"], file |-> kernelFile]
    ELSE IF kernelFile.exists /\ fault = "remove"
    THEN [ret |-> [success |-> FALSE, error |-> "exception"], file |-> kernelFile]
    ELSE IF rc # 0
    THEN [ret |-> [success |-> FALSE,
                   error |-> IF stderr # "" THEN stderr ELSE "Uninstallation failed",
                   output |-> stdout],
          file |-> Absent]
    ELSE [ret |-> [success |-> TRUE, output |-> stdout], file |-> Absent]

\* uninstall_drivers: the dict returned and the kernel record file afterwards
uninstall_drivers(fault, rc, stdout, stderr) ==
    IF fault = "missing"
    THEN [ret |-> [success |-> FALSE, error |-> "Uninstall script not found"],
          file |-> kernelFile]
    ELSE IF fault = "timeout"
    THEN [ret |-> [success |-> FALSE, error |-> "Uninstallation timed out (5 minutes)"],
          file |-> kernelFile]
    ELSE IF fault = "launch"
    THEN [ret |-> [success |-> FALSE, error |-> "exception"], file |-> kernelFile]
    ELSE IF rc # 0
    THEN [ret |-> [success |-> FALSE,
                   error |-> IF stderr # "" THEN stderr ELSE "Uninstallation failed",
                   output |-> stdout],
          file |-> kernelFile]
    ELSE IF kernelFile.exists /\ fault = "remove"
    THEN [ret |-> [success |-> FALSE, error |-> "exception"], file |-> kernelFile]
    ELSE [ret |-> [success |-> TRUE, output |-> stdout], file |-> Absent]

UninstallDrivers(fault, rc, stdout, stderr) ==
    LET r == uninstall_drivers(fault, rc, stdout, stderr)
    IN /\ kernelFile' = r.file
       /\ ret' = r.ret
       /\ call' = "uninstall_drivers"
       /\ inp' = [fault |-> fault, rc |-> rc, stdout |-> stdout,
                  had_record |-> kernelFile.exists]
       /\ emitted' = <<>>
       /\ passes' = 0
       /\ waiting' = Idle
       /\ UNCHANGED <<cleared, env, dongles, checksumFile, downloads>>

(***************************************************************************)
(* Pairing Controller                                                      *)
(***************************************************************************)
\* the dongles bound to the xone-dongle driver, each with one attribute
\* file /sys/bus/usb/drivers/xone-dongle/<d>/pairing
DongleIds == 1 .. NumDongles

\* what the driver shows in the attribute, and what the handlers write
PairingValues == { <<"0", "\n">>, <<"1", "\n">> }

\* the lists glob.glob can return for a set of paths: every order of them
Perms(S) ==
    { o \in [1 .. Cardinality(S) -> S] :
         \A i, j \in 1 .. Cardinality(S) : i # j => o[i] # o[j] }

\* the attribute files after the first n paths of the list were written
Written(value, pairing_paths, n) ==
    [d \in DOMAIN dongles |->
        IF \E i \in 1 .. n : pairing_paths[i] = d THEN value ELSE dongles[d]]

\* get_pairing_status: `first` is the path glob lists first, `fault` a read
\* of it that raises
get_pairing_status(first, fault) ==
    IF DOMAIN dongles = {} THEN [available |-> FALSE, pairing |-> FALSE]
    ELSE IF fault
    THEN [available |-> FALSE, pairing |-> FALSE, error |-> "exception"]
    ELSE [available |-> TRUE, pairing |-> (Strip(dongles[first]) = <<"1">>)]

GetPairingStatus(first, fault) ==
    /\ DOMAIN dongles # {} => first \in DOMAIN dongles
    /\ ret' = get_pairing_status(first, fault)
    /\ call' = "get_pairing_status"
    /\ inp' = [fault |-> fault]
    /\ emitted' = <<>>
    /\ passes' = 0
    /\ waiting' = Idle
    /\ UNCHANGED <<cleared, env, dongles, kernelFile, checksumFile, downloads>>

\* mutant: no matching path is a silent success
enable_pairing_silent(pairing_paths, good) ==
    IF good < Len(pairing_paths)
    THEN [ret |-> [success |-> FALSE, error |-> "exception"],
          dongles |-> Written(<<"1">>, pairing_paths, good), writes |-> good]
    ELSE [ret |-> [success |-> TRUE],
          dongles |-> Written(<<"1">>, pairing_paths, Len(pairing_paths)),
          writes |-> Len(pairing_paths)]

\* enable_pairing: `pairing_paths` is the list glob returns, `good` the
\* number of paths opened and written before an open or a write raises (all
\* of them if it is not less than their number).  The value is the dict
\* returned, the attribute files afterwards and the number of writes done.
enable_pairing(pairing_paths, good) ==
    IF pairing_paths = <<>>
    THEN [ret |-> [success |-> FALSE, error |-> "No dongle found"],
          dongles |-> dongles, writes |-> 0]
    ELSE IF good < Len(pairing_paths)
    THEN [ret |-> [success |-> FALSE, error |-> "exception"],
          dongles |-> Written(<<"1">>, pairing_paths, good), writes |-> good]
    ELSE [ret |-> [success |-> TRUE],
          dongles |-> Written(<<"1">>, pairing_paths, Len(pairing_paths)),
          writes |-> Len(pairing_paths)]

EnablePairing(pairing_paths, good) ==
    LET r == enable_pairing(pairing_paths, good)
    IN /\ ret' = r.ret
       /\ dongles' = r.dongles
       /\ call' = "enable_pairing"
       /\ inp' = [writes |-> r.writes]
       /\ emitted' = <<>>
       /\ passes' = 0
       /\ waiting' = Idle
       /\ UNCHANGED <<cleared, env, kernelFile, checksumFile, downloads>>

\* mutant: only the first path is written
disable_pairing_first_only(pairing_paths, good) ==
    IF pairing_paths = <<>>
    THEN [ret |-> [success |-> FALSE, error |-> "No dongle found"],
          dongles |-> dongles, writes |-> 0]
    ELSE IF good < 1
    THEN [ret |-> [success |-> FALSE, error |-> "exception"],
          dongles |-> dongles, writes |-> 0]
    ELSE [ret |-> [success |-> TRUE],
          dongles |-> Written(<<"0">>, pairing_paths, 1), writes |-> 1]

\* disable_pairing: as enable_pairing, writing "0"
disable_pairing(pairing_paths, good) ==
    IF pairing_paths = <<>>
    THEN [ret |-> [success |-> FALSE, error |-> "No dongle found"],
          dongles |-> dongles, writes |-> 0]
    ELSE IF good < Len(pairing_paths)
    THEN [ret |-> [success |-> FALSE, error |-> "exception"],
          dongles |-> Written(<<"0">>, pairing_paths, good), writes |-> good]
    ELSE [ret |-> [success |-> TRUE],
          dongles |-> Written(<<"0">>, pairing_paths, Len(pairing_paths)),
          writes |-> Len(pairing_paths)]

DisablePairing(pairing_paths, good) ==
    LET r == disable_pairing(pairing_paths, good)
    IN /\ ret' = r.ret
       /\ dongles' = r.dongles
       /\ call' = "disable_pairing"
       /\ inp' = [writes |-> r.writes]
       /\ emitted' = <<>>
       /\ passes' = 0
       /\ waiting' = Idle
       /\ UNCHANGED <<cleared, env, kernelFile, checksumFile, downloads>>

(***************************************************************************)
(* Process Runner                                                          *)
(***************************************************************************)
\* the timeout= of the subprocess.run calls that pass one, in seconds
InstallTimeout == 600

UninstallTimeout == 300

\* the subprocess.run calls each public operation makes, itself or through
\* the methods it calls, with the timeout passed (0 for none)
ExternalCalls ==
    { [op |-> o, proc |-> "dkms", timeout |-> 0] :
         o \in {"get_install_status", "check_for_updates",
                "download_latest_release", "_main"} }
      \cup { [op |-> o, proc |-> "curl", timeout |-> 0] :
                o \in {"check_for_updates", "download_latest_release"} }
      \cup { [op |-> o, proc |-> "uname", timeout |-> 0] :
                o \in {"_main", "install_drivers"} }
      \cup { [op |-> "install_drivers", proc |-> "install.sh",
               timeout |-> InstallTimeout],
              [op |-> "uninstall_drivers", proc |-> "uninstall.sh",
               timeout |-> UninstallTimeout] }

\* an operation is called and, inside subprocess.run, waits for the process
\* it launched
Block(c) ==
    /\ waiting = Idle
    /\ waiting' = c
    /\ call' = "subprocess.run"
    /\ inp' = [none |-> TRUE]
    /\ ret' = [none |-> TRUE]
    /\ emitted' = <<>>
    /\ passes' = 0
    /\ UNCHANGED <<cleared, env, dongles, kernelFile, checksumFile, downloads>>

\* the process waited for exits, and the operation runs on to its return
Exited ==
    /\ waiting # Idle
    /\ \/ waiting.op = "get_install_status" /\ \E f \in BOOLEAN : GetInstallStatus(f)
       \/ /\ waiting.op = "check_for_updates"
          /\ \E fetch \in {[kind |-> "launch"], [kind |-> "rc"]} :
                CheckForUpdates("none", fetch)
       \/ /\ waiting.op = "download_latest_release"
          /\ \E url \in Urls \ {<<>>} :
                DownloadLatestRelease(url, "none", [kind |-> "rc"],
                    [kind |-> "exit", rc |-> 22, written |-> {}, after |-> "none"])
       \/ waiting.op = "_main" /\ \E f \in PassFaults : Main(f)
       \/ /\ waiting.op = "install_drivers"
          /\ \E f \in {"none", "save"}, rc \in ExitCodes, out \in ScriptStdouts :
                InstallDrivers(f, rc, out, "")
       \/ /\ waiting.op = "uninstall_drivers"
          /\ \E f \in {"none", "remove"}, rc \in ExitCodes, out \in ScriptStdouts :
                UninstallDrivers(f, rc, out, "")

\* the timeout passed to subprocess.run expires: the process is killed,
\* TimeoutExpired is raised and the operation returns what its handler of
\* it returns
Expired ==
    /\ waiting # Idle
    /\ waiting.timeout > 0
    /\ \/ /\ waiting.op = "install_drivers"
          /\ InstallDrivers("timeout", 0, <<"done", "\n">>, "")
       \/ /\ waiting.op = "uninstall_drivers"
          /\ UninstallDrivers("timeout", 0, <<"done", "\n">>, "")

(***************************************************************************)
(* Interrupted writes                                                      *)
(***************************************************************************)
\* where in `with open(file, "w") as f: f.write(...)` the process is killed:
\* before open, which truncates the file; after it and before the buffered
\* content reaches the file; or after that
InterruptPoints == {"before", "truncated", "written"}

\* install_drivers, its script having exited 0, is killed inside
\* _save_kernel_version; no dict is returned
KillDuringSaveKernel(at) ==
    LET new == save_kernel_version({}, FALSE)
    IN /\ kernelFile' = CASE at = "before" -> kernelFile
                           [] at = "truncated" -> File(<<>>)
                           [] at = "written" -> new
       /\ call' = "killed"
       /\ inp' = [target |-> "installed_kernel_version", at |-> at, new |-> new]
       /\ ret' = [none |-> TRUE]
       /\ emitted' = <<>>
       /\ passes' = 0
       /\ waiting' = Idle
       /\ UNCHANGED <<cleared, env, dongles, checksumFile, downloads>>

\* the process is killed inside _save_checksum, after json.load has read the
\* mapping there was; a file truncated to nothing is not JSON
KillDuringSaveChecksum(version, file, at) ==
    LET new == save_checksum(version, Sha256(downloads[file].content), FALSE)
    IN /\ downloads[file].exists
       /\ checksumFile.kind # "corrupt"
       /\ checksumFile' = CASE at = "before" -> checksumFile
                             [] at = "truncated" -> Corrupt
                             [] at = "written" -> new
       /\ call' = "killed"
       /\ inp' = [target |-> "checksums.json", at |-> at, new |-> new]
       /\ ret' = [none |-> TRUE]
       /\ emitted' = <<>>
       /\ passes' = 0
       /\ waiting' = Idle
       /\ UNCHANGED <<cleared, env, dongles, kernelFile, downloads>>

(***************************************************************************)
(* Environment                                                             *)
(***************************************************************************)
\* the device boots another kernel (an OS update)
KernelChange(k) ==
    /\ k # kernel
    /\ kernel' = k
    /\ call' = "env"
    /\ inp' = [none |-> TRUE]
    /\ ret' = [none |-> TRUE]
    /\ emitted' = <<>>
    /\ passes' = 0
    /\ cleared' = FALSE
    /\ UNCHANGED <<dongles, waiting, xoneOut, xpadOut, manifest, kernelFile, checksumFile, downloads>>

\* the module manager's answer changes (a script ran, an OS update dropped
\* the modules)
DkmsChange(x, p) ==
    /\ <<x, p>> # <<xoneOut, xpadOut>>
    /\ xoneOut' = x
    /\ xpadOut' = p
    /\ call' = "env"
    /\ inp' = [none |-> TRUE]
    /\ ret' = [none |-> TRUE]
    /\ emitted' = <<>>
    /\ passes' = 0
    /\ UNCHANGED <<cleared, dongles, waiting, kernel, manifest, kernelFile, checksumFile, downloads>>

\* plugin.json changes (the plugin was updated) or is removed
ManifestChange(m) ==
    /\ m # manifest
    /\ manifest' = m
    /\ call' = "env"
    /\ inp' = [none |-> TRUE]
    /\ ret' = [none |-> TRUE]
    /\ emitted' = <<>>
    /\ passes' = 0
    /\ UNCHANGED <<cleared, dongles, waiting, kernel, xoneOut, xpadOut, kernelFile, checksumFile, downloads>>

\* a file of the download directory is removed or replaced by the user
FileChange(n, f) ==
    /\ f # downloads[n]
    /\ downloads' = [downloads EXCEPT ![n] = f]
    /\ call' = "env"
    /\ inp' = [none |-> TRUE]
    /\ ret' = [none |-> TRUE]
    /\ emitted' = <<>>
    /\ passes' = 0
    /\ UNCHANGED <<cleared, dongles, waiting, env, kernelFile, checksumFile>>

\* checksums.json is damaged (a write of it was interrupted, it was edited)
\* or removed
ChecksumsChange(c) ==
    /\ c # checksumFile
    /\ checksumFile' = c
    /\ call' = "env"
    /\ inp' = [none |-> TRUE]
    /\ ret' = [none |-> TRUE]
    /\ emitted' = <<>>
    /\ passes' = 0
    /\ UNCHANGED <<cleared, dongles, waiting, env, kernelFile, downloads>>

\* a dongle is plugged in or unplugged, or its driver changes what the
\* attribute shows (pairing mode ends by itself); `v` is {} for unplugged
DongleChange(d, v) ==
    /\ dongles' = [x \in (DOMAIN dongles \ {d}) \cup {y \in {d} : v # {}} |->
                      IF x = d THEN CHOOSE c \in v : TRUE ELSE dongles[x]]
    /\ dongles' # dongles
    /\ call' = "env"
    /\ inp' = [none |-> TRUE]
    /\ ret' = [none |-> TRUE]
    /\ emitted' = <<>>
    /\ passes' = 0
    /\ UNCHANGED <<cleared, waiting, env, kernelFile, checksumFile, downloads>>

(***************************************************************************)
(* Specification                                                           *)
(***************************************************************************)
Init ==
    /\ kernel = <<KernelNames[1]>>
    /\ xoneOut = <<>>
    /\ xpadOut = <<>>
    /\ manifest = File(V19)
    /\ kernelFile = Absent
    /\ checksumFile = NoChecksums
    /\ downloads = [n \in FileNames |-> Absent]
    /\ dongles = [d \in {} |-> <<>>]
    /\ waiting = Idle
    /\ cleared = FALSE
    /\ call = "init"
    /\ inp = [none |-> TRUE]
    /\ ret = [none |-> TRUE]
    /\ emitted = <<>>
    /\ passes = 0

NextKernel ==
    \/ \E f \in PassFaults : Main(f)
    \/ \E f \in InstallFaults, rc \in ExitCodes, out \in ScriptStdouts,
          err \in ScriptStderrs : InstallDrivers(f, rc, out, err)
    \/ \E f \in UninstallFaults, rc \in ExitCodes, out \in ScriptStdouts,
          err \in ScriptStderrs : UninstallDrivers(f, rc, out, err)
    \/ \E k \in Kernels : KernelChange(k)
    \/ \E x \in DkmsOutputs, p \in DkmsOutputs : DkmsChange(x, p)

NextStore ==
    \/ \E v \in Tags, n \in FileNames, f \in BOOLEAN : SaveChecksum(v, n, f)
    \/ \E v \in Tags, n \in FileNames, f \in BOOLEAN : VerifyChecksum(v, n, f)
    \/ \E f \in CheckFaults, fetch \in Fetches : CheckForUpdates(f, fetch)
    \/ \E url \in Urls \ {<<>>}, fetch \in TagFetches, t \in Transfers :
          DownloadLatestRelease(url, "none", fetch, t)
    \/ DownloadLatestRelease(<<>>, "none", [kind |-> "rc"], [kind |-> "raise"])
    \/ \E n \in FileNames, f \in {Absent} \cup { File(c) : c \in Contents } :
          FileChange(n, f)
    \/ \E c \in {NoChecksums, Corrupt} : ChecksumsChange(c)

NextPairing ==
    \/ \E o \in Perms(DOMAIN dongles), good \in 0 .. NumDongles : EnablePairing(o, good)
    \/ \E o \in Perms(DOMAIN dongles), good \in 0 .. NumDongles : DisablePairing(o, good)
    \/ \E d \in DongleIds, f \in BOOLEAN : GetPairingStatus(d, f)
    \/ \E d \in DongleIds, v \in {{}} \cup { {c} : c \in PairingValues } :
          DongleChange(d, v)

Next ==
    \/ NextKernel
    \/ NextStore
    \/ NextPairing
    \/ \E m \in {Absent} \cup { File(v) : v \in ManifestVersions } : ManifestChange(m)

\* the whole plugin
Spec == Init /\ [][Next]_vars

\* The handlers that read or write the kernel record, with their
\* environment.  They neither read nor write checksumFile and downloads.
KernelSpec == Init /\ [][NextKernel]_vars

\* The handlers that read or write the checksum mapping and the download
\* directory, with their environment.  They neither read nor write
\* kernelFile, and read of the install status the plugin version only.
StoreSpec == Init /\ [][NextStore]_vars

\* The comparison of parsed versions, applied to every three strings.
\* check_for_updates with what it reads: plugin.json and the download
\* directory
NextUpdate ==
    \/ \E f \in CheckFaults, fetch \in Fetches : CheckForUpdates(f, fetch)
    \/ \E m \in {Absent} \cup { File(v) : v \in ManifestVersions } : ManifestChange(m)
    \/ \E n \in FileNames, f \in {Absent} \cup { File(c) : c \in Contents } :
          FileChange(n, f)

UpdateSpec == Init /\ [][NextUpdate]_vars

\* get_install_status with what it reads, the module manager and
\* plugin.json, and its caller at load time
NextStatus ==
    \/ \E f \in BOOLEAN : GetInstallStatus(f)
    \/ \E f \in PassFaults : Main(f)
    \/ \E k \in Kernels : KernelChange(k)
    \/ \E x \in DkmsOutputs, p \in DkmsOutputs : DkmsChange(x, p)
    \/ \E m \in {Absent} \cup { File(v) : v \in ManifestVersions } : ManifestChange(m)

StatusSpec == Init /\ [][NextStatus]_vars

\* Every public operation, with the environment step that gives the pairing
\* handlers a path to read and write: the first dongle is plugged in or
\* unplugged.  The rest of the environment stays as it is at Init.
NextOps ==
    \/ \E f \in BOOLEAN : GetInstallStatus(f)
    \/ \E d \in DongleIds, f \in BOOLEAN : GetPairingStatus(d, f)
    \/ \E f \in CheckFaults, fetch \in Fetches : CheckForUpdates(f, fetch)
    \/ \E url \in Urls, fetch \in TagFetches, t \in Transfers :
          DownloadLatestRelease(url, "none", fetch, t)
    \/ \E o \in Perms(DOMAIN dongles), good \in 0 .. NumDongles : EnablePairing(o, good)
    \/ \E o \in Perms(DOMAIN dongles), good \in 0 .. NumDongles : DisablePairing(o, good)
    \/ \E f \in InstallFaults, rc \in ExitCodes, out \in ScriptStdouts,
          err \in ScriptStderrs : InstallDrivers(f, rc, out, err)
    \/ \E f \in UninstallFaults, rc \in ExitCodes, out \in ScriptStdouts,
          err \in ScriptStderrs : UninstallDrivers(f, rc, out, err)
    \/ \E f \in PassFaults : Main(f)
    \/ \E v \in {{}, {<<"0", "\n">>}} : DongleChange(1, v)

OpsSpec == Init /\ [][NextOps]_vars

\* The operations that launch processes, each split where it waits for one.
\* The timer of a timeout is the only step that is bound to happen: a
\* process need not exit, and nobody need call an operation.
NextHang ==
    \/ \E c \in ExternalCalls : Block(c)
    \/ Exited
    \/ Expired
    \/ \E x \in DkmsOutputs, p \in DkmsOutputs : DkmsChange(x, p)

HangSpec == Init /\ [][NextHang]_vars /\ WF_vars(Expired)

\* The writes of the two persisted files, completed or interrupted, with
\* the environment that changes what is written.
NextInterrupt ==
    \/ \E at \in InterruptPoints : KillDuringSaveKernel(at)
    \/ \E v \in Tags, n \in FileNames, at \in InterruptPoints :
          KillDuringSaveChecksum(v, n, at)
    \/ \E f \in InstallFaults, rc \in ExitCodes, out \in ScriptStdouts,
          err \in ScriptStderrs : InstallDrivers(f, rc, out, err)
    \/ \E v \in Tags, n \in FileNames, f \in BOOLEAN : SaveChecksum(v, n, f)
    \/ \E k \in Kernels : KernelChange(k)
    \/ \E n \in FileNames, f \in {Absent} \cup { File(c) : c \in Contents } :
          FileChange(n, f)

InterruptSpec == Init /\ [][NextInterrupt]_vars

NextCompare == \E a, b, c \in ComparedStrings : Compare(a, b, c)

CompareSpec == Init /\ [][NextCompare]_vars

\* The handlers that read or write the pairing attributes, with their
\* environment.  They read and write nothing else.
PairingSpec == Init /\ [][NextPairing]_vars

(***************************************************************************)
(* Properties                                                              *)
(***************************************************************************)
\* both modules are reported installed by the module manager
FullyInstalled == ContainsInstalled(xoneOut) /\ ContainsInstalled(xpadOut)

\* the script of an install or uninstall call ran and exited
ScriptExited(i) == i.fault \notin {"missing", "launch", "timeout"}

\* the script printed the reboot marker
PrintedMarker(i) == i.stdout = <<"REBOOT_REQUIRED", "\n">>

\* C1: a pass of _main that finds the drivers fully installed, a kernel
\* record K1 and a running kernel K2 # K1 emits exactly one
\* kernel_update_detected event carrying (K1, K2) and leaves the record K1;
\* a load runs exactly one pass and emits at most one event.
C1_MismatchNotifiedOnce ==
    [][ call' = "_main" =>
          /\ passes' = 1
          /\ Len(emitted') <= 1
          /\ ( /\ inp'.fault \notin {"status", "uname", "read"}
               /\ FullyInstalled
               /\ kernelFile.exists
               /\ kernelFile.content # kernel )
             => /\ emitted' = << <<"kernel_update_detected", kernelFile.content, kernel>> >>
                /\ kernelFile' = kernelFile ]_vars

C1_Witness ==
    /\ call = "_main"
    /\ passes = 1
    /\ Len(emitted) = 1
    /\ kernelFile.exists
    /\ emitted[1] = <<"kernel_update_detected", kernelFile.content, kernel>>
    /\ kernelFile.content # kernel

C3_NotInstalledFrozen ==
    [][ (call' = "_main" /\ (~FullyInstalled \/ inp'.fault = "status")) =>
          (kernelFile' = kernelFile /\ emitted' = <<>>) ]_vars

C3_Witness ==
    /\ call = "_main"
    /\ ~FullyInstalled
    /\ ContainsInstalled(xoneOut) # ContainsInstalled(xpadOut)
    /\ kernelFile.exists
    /\ kernelFile.content # kernel
    /\ emitted = <<>>

\* C4 as claimed: after install_drivers returns success the kernel record
\* holds the running kernel's release.
C4_AsClaimed ==
    (call = "install_drivers" /\ ret.success) => kernelFile = File(kernel)

\* C5: when the install script exits 100 or prints the marker,
\* install_drivers returns reboot_required and the kernel record is as it
\* was before the call.
C5_RebootLeavesRecord ==
    [][ ( /\ call' = "install_drivers"
          /\ ScriptExited(inp')
          /\ (inp'.rc = 100 \/ PrintedMarker(inp')) ) =>
          /\ Has(ret', "reboot_required")
          /\ ret'.reboot_required
          /\ kernelFile' = kernelFile ]_vars

C5_Witness ==
    /\ call = "install_drivers"
    /\ Has(ret, "reboot_required")
    /\ inp.rc = 0
    /\ kernelFile.exists
    /\ kernelFile.content # kernel

\* C6: an uninstall_drivers that returns success leaves no kernel record;
\* one that returns failure leaves the record as it was.
C6_UninstallClearsRecord ==
    [][ call' = "uninstall_drivers" =>
          IF ret'.success THEN kernelFile' = Absent
          ELSE kernelFile' = kernelFile ]_vars

C6_Witness ==
    /\ call = "uninstall_drivers"
    /\ ret.success
    /\ inp.had_record
    /\ ~kernelFile.exists

\* the three outcomes of a script run
IsSuccess(r) == r.success /\ ~Has(r, "reboot_required") /\ ~Has(r, "error")

IsRebootRequired(r) ==
    Has(r, "reboot_required") /\ r.reboot_required /\ ~r.success /\ ~Has(r, "error")

IsGenericFailure(r) == ~r.success /\ Has(r, "error") /\ ~Has(r, "reboot_required")

\* C7 as claimed: for the install and for the uninstall script, exit 100 or
\* the marker gives reboot-required, exit 0 gives success and any other
\* exit gives a generic failure.
C7_AsClaimed ==
    ( /\ call \in {"install_drivers", "uninstall_drivers"}
      /\ ScriptExited(inp)
      /\ inp.fault # "remove" ) =>
        IF inp.rc = 100 \/ PrintedMarker(inp) THEN IsRebootRequired(ret)
        ELSE IF inp.rc = 0 THEN IsSuccess(ret)
        ELSE IsGenericFailure(ret)

\* C7 amended: for the install script it is as claimed, the marker taking
\* precedence over exit 0.  uninstall_drivers has no reboot-required
\* outcome: any non-zero exit, 100 included, is a generic failure and exit 0
\* is success whatever stdout holds, unless the record cannot be removed,
\* which is a generic failure.
C7_ScriptOutcome ==
    /\ (call = "install_drivers" /\ ScriptExited(inp)) =>
          IF inp.rc = 100 \/ PrintedMarker(inp) THEN IsRebootRequired(ret)
          ELSE IF inp.rc = 0 THEN IsSuccess(ret)
          ELSE IsGenericFailure(ret)
    /\ (call = "uninstall_drivers" /\ ScriptExited(inp)) =>
          IF inp.rc # 0 THEN IsGenericFailure(ret)
          ELSE IF inp.fault = "remove" /\ inp.had_record THEN IsGenericFailure(ret)
          ELSE IsSuccess(ret)

C7_Witness ==
    /\ call = "install_drivers"
    /\ inp.rc = 0
    /\ PrintedMarker(inp)
    /\ IsRebootRequired(ret)

\* the entries of checksums.json, a missing file holding none
Entries(f) == IF f.kind = "json" THEN f.data ELSE << >>

\* C8 as claimed: _verify_checksum(v, f) right after _save_checksum(v,
\* hash(f)) returns true; it returns false when the file's content is not the
\* one recorded for v, and when nothing is recorded for v.
C8_AsClaimed ==
    [][ call' = "_verify_checksum" /\ ~inp'.fault =>
          /\ ( /\ call = "_save_checksum"
               /\ ~inp.fault
               /\ inp.version = inp'.version
               /\ inp.file = inp'.file ) => ret'.value
          /\ ( /\ Has(Entries(checksumFile), inp'.version)
               /\ downloads[inp'.file].exists
               /\ Entries(checksumFile)[inp'.version]
                     # Sha256(downloads[inp'.file].content) ) => ~ret'.value
          /\ ~Has(Entries(checksumFile), inp'.version) => ~ret'.value ]_vars

\* C9: check_for_updates reports file_exists true only if a file of the
\* candidate's name is in the download directory and checksums.json holds,
\* for the latest tag, the hash of that file's content; with checksums.json
\* missing or corrupt, or no entry for the tag, file_exists is false.
C9_FileExistsIsVerified ==
    (call = "check_for_updates" /\ Has(ret, "file_exists") /\ ret.file_exists) =>
        /\ ret.filename \in DOMAIN downloads
        /\ downloads[ret.filename].exists
        /\ checksumFile.kind = "json"
        /\ Has(checksumFile.data, ret.latest_tag)
        /\ checksumFile.data[ret.latest_tag] = Sha256(downloads[ret.filename].content)

C9_Witness ==
    /\ call = "check_for_updates"
    /\ Has(ret, "file_exists")
    /\ ret.file_exists
    /\ Cardinality(DOMAIN Entries(checksumFile)) = 2

\* the version a step saves a checksum for, if any
SavedVersions(c, i) ==
    IF c = "_save_checksum" THEN {i.version}
    ELSE IF c = "download_latest_release" THEN i.tag
    ELSE {}

\* C10: a save of a checksum for version v leaves the entry of every other
\* version as it was, a missing checksums.json counting as no entries.
C10_SaveKeepsOtherEntries ==
    [][ call' \in {"_save_checksum", "download_latest_release"} =>
          \/ checksumFile' = checksumFile
          \/ /\ checksumFile.kind # "corrupt"
             /\ checksumFile'.kind = "json"
             /\ \A t \in (DOMAIN Entries(checksumFile) \cup DOMAIN checksumFile'.data)
                          \ SavedVersions(call', inp') :
                   /\ Has(Entries(checksumFile), t)
                   /\ Has(checksumFile'.data, t)
                   /\ checksumFile'.data[t] = Entries(checksumFile)[t] ]_vars

C10_Witness ==
    /\ call = "download_latest_release"
    /\ ret.success
    /\ inp.tag # {}
    /\ Cardinality(DOMAIN Entries(checksumFile)) = 2
    /\ \E t \in DOMAIN Entries(checksumFile) :
          /\ t \notin inp.tag
          /\ Entries(checksumFile)[t] # Sha256(downloads[ret.path].content)

\* C11 as claimed: whenever download_latest_release returns success, the
\* checksum mapping afterwards holds, under the latest release tag, the hash
\* of the file just written at its destination.
C11_AsClaimed ==
    [][ (call' = "download_latest_release" /\ ret'.success) =>
          /\ downloads'[ret'.path].exists
          /\ inp'.tag # {}
          /\ checksumFile'.kind = "json"
          /\ \A t \in inp'.tag :
                /\ Has(checksumFile'.data, t)
                /\ checksumFile'.data[t] = Sha256(downloads'[ret'.path].content) ]_vars

\* C12: a download that fails (no URL, a non-zero exit of the transfer, a
\* fault before, during or after the transfer) is returned as a dict with
\* success false and an error, and leaves checksums.json as it was, whatever
\* it left in the download directory.
C12_FailedDownloadKeepsChecksums ==
    [][ (call' = "download_latest_release" /\ ~ret'.success) =>
          /\ Has(ret', "error")
          /\ checksumFile' = checksumFile ]_vars

\* a failed transfer that left a partial file, a checksum being on record
C12_Witness ==
    /\ call = "download_latest_release"
    /\ ~ret.success
    /\ ret.error = "Download failed"
    /\ inp.tag # {}
    /\ downloads[LastSegment(inp.url)] = File(<<>>)
    /\ DOMAIN Entries(checksumFile) # {}

\* C13: enable_pairing and disable_pairing with no matching attribute path
\* return a failure with the reason "No dongle found" and write nothing.
C13_NoDongleIsFailure ==
    [][ (call' \in {"enable_pairing", "disable_pairing"} /\ DOMAIN dongles = {}) =>
          /\ ret' = [success |-> FALSE, error |-> "No dongle found"]
          /\ inp'.writes = 0
          /\ dongles' = dongles ]_vars

\* enable_pairing found no dongle
C13_Witness ==
    /\ call = "enable_pairing"
    /\ DOMAIN dongles = {}
    /\ ~ret.success
    /\ ret.error = "No dongle found"

\* C14: when enable_pairing (disable_pairing) returns success, the pairing
\* attribute of every dongle plugged in holds "1" ("0"), however many there
\* are and in whatever order they were listed.
C14_SuccessWroteEveryPath ==
    [][ (call' \in {"enable_pairing", "disable_pairing"} /\ ret'.success) =>
          /\ DOMAIN dongles' = DOMAIN dongles
          /\ DOMAIN dongles # {}
          /\ inp'.writes = Cardinality(DOMAIN dongles)
          /\ \A d \in DOMAIN dongles :
                dongles'[d] = IF call' = "enable_pairing" THEN <<"1">> ELSE <<"0">> ]_vars

\* disable_pairing succeeded with more than one dongle plugged in
C14_Witness ==
    /\ call = "disable_pairing"
    /\ ret.success
    /\ Cardinality(DOMAIN dongles) >= 2

\* C15 as claimed: the comparison of parsed versions never fails and is a
\* strict total order: a version is not greater than itself, two versions
\* are not each greater than the other, greater is transitive, and of two
\* versions with different keys one is greater.
C15_AsClaimed ==
    call = "parse_version" =>
        /\ "TypeError" \notin {ret.aa, ret.ab, ret.ba, ret.bc, ret.ac}
        /\ ret.aa = "False"
        /\ ~(ret.ab = "True" /\ ret.ba = "True")
        /\ (ret.ab = "True" /\ ret.bc = "True") => ret.ac = "True"
        /\ ret.same \/ ret.ab = "True" \/ ret.ba = "True"

\* C16 as claimed: when the release descriptor was fetched, check_for_updates
\* reports update_available, true exactly if the parsed latest tag is
\* greater than the parsed current version; when the fetch failed it
\* returns update_available false with an error.
C16_AsClaimed ==
    call = "check_for_updates" =>
        /\ inp.tag # {} =>
              /\ ~Has(ret, "error")
              /\ \A t \in inp.tag :
                    ret.update_available = (Greater(t, inp.current) = "True")
        /\ inp.fetch \in {"launch", "rc", "malformed"} =>
              /\ ~ret.update_available
              /\ Has(ret, "error")

\* C17: every dict get_install_status returns has fully_installed equal to
\* xone_installed and xpad_installed; the one returned when a query fails
\* has both flags false and carries the error.
C17_FullyIsBoth ==
    call = "get_install_status" =>
        /\ ret.fully_installed = (ret.xone_installed /\ ret.xpad_installed)
        /\ inp.fault =>
              /\ ~ret.xone_installed
              /\ ~ret.xpad_installed
              /\ Has(ret, "error")

\* a query that failed while both modules were installed
C17_Witness ==
    /\ call = "get_install_status"
    /\ inp.fault
    /\ FullyInstalled
    /\ ~ret.fully_installed
    /\ Has(ret, "error")

\* an external call of the last operation raised: a process could not be
\* launched or timed out, a file could not be read, written or removed, the
\* release descriptor was malformed.  (_main returns nothing to its caller
\* and is left out.)
FaultOccurred ==
    CASE call = "get_install_status" -> inp.fault
      [] call = "get_pairing_status" -> inp.fault /\ DOMAIN dongles # {}
      [] call = "check_for_updates" ->
            inp.status_fault \/ inp.fetch \in {"launch", "malformed"}
      [] call = "download_latest_release" -> inp.fault # "none"
      [] call \in {"enable_pairing", "disable_pairing"} ->
            inp.writes < Cardinality(DOMAIN dongles)
      [] call = "install_drivers" ->
            \/ ~ScriptExited(inp)
            \/ inp.fault = "save" /\ inp.rc = 0 /\ ~PrintedMarker(inp)
      [] call = "uninstall_drivers" ->
            \/ ~ScriptExited(inp)
            \/ inp.fault = "remove" /\ inp.rc = 0 /\ inp.had_record
      [] OTHER -> FALSE

\* the dict the last operation returned indicates a failure and describes it
FailureReported ==
    /\ Has(ret, "error")
    /\ CASE call = "get_install_status" -> ~ret.fully_installed
         [] call = "get_pairing_status" -> ~ret.available
         [] call = "check_for_updates" -> ~ret.update_available
         [] OTHER -> ~ret.success

\* C18 as claimed: whenever an external call of a public operation raises,
\* the operation returns a dict that indicates the failure and describes it.
C18_AsClaimed == FaultOccurred => FailureReported

\* C19 as claimed: an operation that waits for an external process
\* eventually returns, whether or not the process ever exits.
C19_AsClaimed == (waiting # Idle) ~> (waiting = Idle)

\* C20 as claimed: after the process is killed during a write of the kernel
\* record or of the checksum mapping, the file holds its complete old
\* content or its complete new content.
C20_AsClaimed ==
    [][ call' = "killed" =>
          /\ kernelFile' = kernelFile
                \/ (inp'.target = "installed_kernel_version" /\ kernelFile' = inp'.new)
          /\ checksumFile' = checksumFile
                \/ (inp'.target = "checksums.json" /\ checksumFile' = inp'.new) ]_vars

\* C21 as claimed: once install_drivers has returned success, no pass of
\* _main run while the running kernel is unchanged emits
\* kernel_update_detected; and with no such install, every pass that finds
\* the drivers fully installed and a record of another kernel emits it and
\* leaves the record, so that the next one emits it again.
C21_AsClaimed ==
    [][ call' = "_main" =>
          /\ cleared => emitted' = <<>>
          /\ ( /\ ~cleared
               /\ inp'.fault \notin {"status", "uname", "read"}
               /\ FullyInstalled
               /\ kernelFile.exists
               /\ kernelFile.content # kernel )
             => /\ emitted' # <<>>
                /\ kernelFile' = kernelFile ]_vars

====
